---- MODULE Spec2Model ----
(***************************************************************************)
(* CaresResolver (tornado/platform/caresresolver.py): the bridge between   *)
(* the c-ares channel's socket-state callback and the IOLoop's handler     *)
(* table, and the two coroutines resolve() and query() that turn a         *)
(* one-shot completion callback into a suspended caller's result.          *)
(*                                                                         *)
(* Text is modelled as a sequence of one-character strings, so that        *)
(* "'.' in address" and str.upper() are computed, not assumed.             *)
(***************************************************************************)
EXTENDS Integers, Sequences, FiniteSets, TLC

(***************************************************************************)
(* Program constants.                                                      *)
(***************************************************************************)
READ == 1
WRITE == 4
ERROR == 24
ARES_SOCKET_BAD == -1
AF_UNSPEC == 0
AF_INET == 2
AF_INET6 == 10

(***************************************************************************)
(* Bounds of the model.                                                    *)
(***************************************************************************)
MaxAddrs == 2
MaxErr == 2
MaxLen == 4
MaxTypeLen == 2

FDs == {7, 8}
Callers == {1, 2}
Families == {AF_UNSPEC, AF_INET, AF_INET6}

(***************************************************************************)
(* Texts.                                                                  *)
(***************************************************************************)
V4 == <<"1", ".", "2", ".", "3", ".", "4">>
V6 == <<":", ":", "1">>
Mapped == <<":", ":", "f", "f", "f", "f", ":", "1", ".", "2", ".", "3", ".", "4">>
Bare == <<"h", "o", "s", "t">>
NameA == <<"a", ".", "i", "o">>
NameB == <<"b", ".", "i", "o">>

IPLiterals == {V4, V6, Mapped}
HostNames == {NameA, NameB}
AddrPool == {V4, V6, Mapped, Bare}

SeqsUpTo(S, n) == UNION {[1..k -> S] : k \in 0..n}

Contains(ch, text) == \E i \in 1..Len(text) : text[i] = ch

\* tornado.netutil.is_valid_ip: whether the text is an IP literal.
is_valid_ip(host) == host \in IPLiterals

\* pycares.errno.strerror: the engine's message for an error code.
strerror(error) == <<"strerror", error>>

LowerCase == <<"a", "b", "c", "d", "e", "f", "g", "h", "i", "j", "k", "l", "m",
               "n", "o", "p", "q", "r", "s", "t", "u", "v", "w", "x", "y", "z">>
UpperCase == <<"A", "B", "C", "D", "E", "F", "G", "H", "I", "J", "K", "L", "M",
               "N", "O", "P", "Q", "R", "S", "T", "U", "V", "W", "X", "Y", "Z">>

UpperChar(ch) ==
    IF \E i \in 1..26 : LowerCase[i] = ch
    THEN UpperCase[CHOOSE i \in 1..26 : LowerCase[i] = ch]
    ELSE ch

\* str.upper()
upper(text) == [i \in 1..Len(text) |-> UpperChar(text[i])]

RTYPES ==
    (<<"A">> :> "QUERY_TYPE_A") @@
    (<<"A", "A", "A", "A">> :> "QUERY_TYPE_AAAA") @@
    (<<"C", "N", "A", "M", "E">> :> "QUERY_TYPE_CNAME") @@
    (<<"M", "X">> :> "QUERY_TYPE_MX") @@
    (<<"N", "A", "P", "T", "R">> :> "QUERY_TYPE_NAPTR") @@
    (<<"N", "S">> :> "QUERY_TYPE_NS") @@
    (<<"P", "T", "R">> :> "QUERY_TYPE_PTR") @@
    (<<"S", "O", "A">> :> "QUERY_TYPE_SOA") @@
    (<<"S", "R", "V">> :> "QUERY_TYPE_SRV") @@
    (<<"T", "X", "T">> :> "QUERY_TYPE_TXT")

(***************************************************************************)
(* State.                                                                  *)
(*   fds       self.fds: fd -> interest mask                               *)
(*   handlers  the IOLoop's registrations: fd -> events                    *)
(*   lastReport  history: the (readable, writable) last reported per fd   *)
(*   zeroed    history: the fds for which a zero mask has been reported    *)
(*             and add_handler has not been called since                   *)
(*   calls     one record per caller slot: the resolve()/query() frame,    *)
(*             its suspension state and what its caller received           *)
(*   inflight  the engine's requests whose completion has not fired        *)
(*   last      the external calls made, and the exception raised, by the   *)
(*             most recent handler                                         *)
(*   address, address_family   input and output of the family inference    *)
(*             taken alone                                                 *)
(*   ready_fd, ready_events   the arguments of the dispatch taken alone    *)
(***************************************************************************)
VARIABLES fds, handlers, lastReport, zeroed, calls, inflight, last,
          address, address_family, ready_fd, ready_events

vars == <<fds, handlers, lastReport, zeroed, calls, inflight, last,
          address, address_family, ready_fd, ready_events>>
bridgeVars == <<fds, handlers, lastReport, zeroed>>
queryVars == <<calls, inflight>>
inferVars == <<address, address_family, ready_fd, ready_events>>

NoExc == [type |-> "none", a |-> 0, b |-> 0, msg |-> <<>>, host |-> <<>>]
NoOutcome == [kind |-> "none", value |-> <<>>, exc |-> NoExc]
Return(value) == [kind |-> "return", value |-> value, exc |-> NoExc]
Raise(exc) == [kind |-> "raise", value |-> <<>>, exc |-> exc]

AresError(error, host) ==
    [type |-> "ares", a |-> error, b |-> 0, msg |-> strerror(error), host |-> host]
FamilyMismatch(family, af) ==
    [type |-> "family", a |-> family, b |-> af, msg |-> <<>>, host |-> <<>>]
AssertionError ==
    [type |-> "assert", a |-> 0, b |-> 0, msg |-> <<>>, host |-> <<>>]

IdleCall ==
    [op |-> "none", host |-> <<>>, port |-> 0, family |-> AF_UNSPEC,
     record_type |-> <<>>, pc |-> "idle", request |-> <<>>, lookups |-> 0,
     fired |-> 0, cbargs |-> <<>>, outcome |-> NoOutcome,
     returned |-> 0, raised |-> 0]

Quiet == [calls |-> <<>>, raised |-> "none"]

(***************************************************************************)
(* Helpers.                                                                *)
(***************************************************************************)
RECURSIVE BitAnd(_, _)
BitAnd(x, y) ==
    IF x = 0 \/ y = 0 THEN 0
    ELSE (x % 2) * (y % 2) + 2 * BitAnd(x \div 2, y \div 2)

RECURSIVE BitOr(_, _)
BitOr(x, y) ==
    IF x = 0 THEN y
    ELSE IF y = 0 THEN x
    ELSE (IF x % 2 = 1 \/ y % 2 = 1 THEN 1 ELSE 0) + 2 * BitOr(x \div 2, y \div 2)

EmptyMap == [x \in {} |-> 0]
Put(f, k, v) == [x \in DOMAIN f \cup {k} |-> IF x = k THEN v ELSE f[x]]
Drop(f, k) == [x \in DOMAIN f \ {k} |-> f[x]]

\* The event sets the IOLoop can hand to a handler.
EventSets == {BitOr(BitOr(r, w), e) : r \in {0, READ}, w \in {0, WRITE}, e \in {0, ERROR}} \ {0}

(***************************************************************************)
(* Descriptor bridge.                                                      *)
(***************************************************************************)
\* state = (READ if readable else 0) | (WRITE if writable else 0)
Mask(readable, writable) ==
    BitOr(IF readable THEN READ ELSE 0, IF writable THEN WRITE ELSE 0)

\* The IOLoop's registration table after a call (spec section 6): add_handler
\* on a watched descriptor and update_handler on an unwatched one fail;
\* remove_handler on an unwatched one fails or does nothing (loop_ok).
LoopFails(table, call, loop_ok) ==
    CASE call[1] = "add_handler" -> call[2] \in DOMAIN table
      [] call[1] = "update_handler" -> call[2] \notin DOMAIN table
      [] call[1] = "remove_handler" -> call[2] \notin DOMAIN table /\ ~loop_ok

LoopAfter(table, call, loop_ok) ==
    IF LoopFails(table, call, loop_ok) THEN table
    ELSE IF call[1] = "remove_handler" THEN Drop(table, call[2])
    ELSE Put(table, call[2], call[3])

\* _sock_state_cb with the update branch OR-ing the new mask into the old one
SockStateCbOrsMask(fd, readable, writable, loop_ok) ==
    LET state == Mask(readable, writable)
        call == IF state = 0 THEN <<"remove_handler", fd, 0>>
                ELSE IF fd \in DOMAIN fds THEN <<"update_handler", fd, state>>
                ELSE <<"add_handler", fd, state>>
        raised == IF LoopFails(handlers, call, loop_ok) THEN "IOError"
                  ELSE IF state = 0 /\ fd \notin DOMAIN fds THEN "KeyError"
                  ELSE "none"
    IN
    /\ lastReport' = [lastReport EXCEPT ![fd] = <<readable, writable>>]
    /\ zeroed' = IF state = 0 THEN zeroed \cup {fd}
                 ELSE IF call[1] = "add_handler" THEN zeroed \ {fd}
                 ELSE zeroed
    /\ handlers' = LoopAfter(handlers, call, loop_ok)
    /\ fds' = IF raised # "none" THEN fds
              ELSE IF state = 0 THEN Drop(fds, fd)
              ELSE IF fd \in DOMAIN fds THEN Put(fds, fd, BitOr(fds[fd], state))
              ELSE Put(fds, fd, state)
    /\ last' = [calls |-> <<call>>, raised |-> raised]
    /\ UNCHANGED <<queryVars, inferVars>>

\* _sock_state_cb without the "elif fd in self.fds" branch: every non-zero
\* report calls add_handler
SockStateCbAlwaysAdds(fd, readable, writable, loop_ok) ==
    LET state == Mask(readable, writable)
        call == IF state = 0 THEN <<"remove_handler", fd, 0>>
                ELSE <<"add_handler", fd, state>>
        raised == IF LoopFails(handlers, call, loop_ok) THEN "IOError"
                  ELSE IF state = 0 /\ fd \notin DOMAIN fds THEN "KeyError"
                  ELSE "none"
    IN
    /\ lastReport' = [lastReport EXCEPT ![fd] = <<readable, writable>>]
    /\ zeroed' = IF state = 0 THEN zeroed \cup {fd} ELSE zeroed \ {fd}
    /\ handlers' = LoopAfter(handlers, call, loop_ok)
    /\ fds' = IF raised # "none" THEN fds
              ELSE IF state = 0 THEN Drop(fds, fd)
              ELSE Put(fds, fd, state)
    /\ last' = [calls |-> <<call>>, raised |-> raised]
    /\ UNCHANGED <<queryVars, inferVars>>

\* _sock_state_cb with self.fds.pop(fd, None) in place of del self.fds[fd]
SockStateCbTolerant(fd, readable, writable, loop_ok) ==
    LET state == Mask(readable, writable)
        call == IF state = 0 THEN <<"remove_handler", fd, 0>>
                ELSE IF fd \in DOMAIN fds THEN <<"update_handler", fd, state>>
                ELSE <<"add_handler", fd, state>>
        raised == IF LoopFails(handlers, call, loop_ok) THEN "IOError" ELSE "none"
    IN
    /\ lastReport' = [lastReport EXCEPT ![fd] = <<readable, writable>>]
    /\ zeroed' = IF state = 0 THEN zeroed \cup {fd}
                 ELSE IF call[1] = "add_handler" THEN zeroed \ {fd}
                 ELSE zeroed
    /\ handlers' = LoopAfter(handlers, call, loop_ok)
    /\ fds' = IF raised # "none" THEN fds
              ELSE IF state = 0 THEN Drop(fds, fd)
              ELSE Put(fds, fd, state)
    /\ last' = [calls |-> <<call>>, raised |-> raised]
    /\ UNCHANGED <<queryVars, inferVars>>

_sock_state_cb(fd, readable, writable, loop_ok) ==
    LET state == Mask(readable, writable)
        call == IF state = 0 THEN <<"remove_handler", fd, 0>>
                ELSE IF fd \in DOMAIN fds THEN <<"update_handler", fd, state>>
                ELSE <<"add_handler", fd, state>>
        raised == IF LoopFails(handlers, call, loop_ok) THEN "IOError"
                  ELSE IF state = 0 /\ fd \notin DOMAIN fds THEN "KeyError"
                  ELSE "none"
    IN
    /\ lastReport' = [lastReport EXCEPT ![fd] = <<readable, writable>>]
    /\ zeroed' = IF state = 0 THEN zeroed \cup {fd}
                 ELSE IF call[1] = "add_handler" THEN zeroed \ {fd}
                 ELSE zeroed
    /\ handlers' = LoopAfter(handlers, call, loop_ok)
    /\ fds' = IF raised # "none" THEN fds
              ELSE IF state = 0 THEN Drop(fds, fd)
              ELSE Put(fds, fd, state)
    /\ last' = [calls |-> <<call>>, raised |-> raised]
    /\ UNCHANGED <<queryVars, inferVars>>

\* _handle_events treating an error condition as readability
HandleEventsErrorAsRead(fd, events) ==
    /\ fd \in DOMAIN handlers
    /\ LET read_fd == IF BitAnd(events, READ + ERROR) # 0 THEN fd ELSE ARES_SOCKET_BAD
           write_fd == IF BitAnd(events, WRITE) # 0 THEN fd ELSE ARES_SOCKET_BAD
       IN last' = [calls |-> <<<<"process_fd", read_fd, write_fd>>>>, raised |-> "none"]
    /\ UNCHANGED <<bridgeVars, queryVars, inferVars>>

\* _handle_events forgetting a descriptor that is neither readable nor
\* writable (remove_handler and del self.fds[fd] of its own)
HandleEventsDropsOnError(fd, events) ==
    /\ fd \in DOMAIN handlers
    /\ LET read_fd == IF BitAnd(events, READ) # 0 THEN fd ELSE ARES_SOCKET_BAD
           write_fd == IF BitAnd(events, WRITE) # 0 THEN fd ELSE ARES_SOCKET_BAD
           drop == read_fd = ARES_SOCKET_BAD /\ write_fd = ARES_SOCKET_BAD
       IN /\ last' = [calls |-> <<<<"process_fd", read_fd, write_fd>>>>, raised |-> "none"]
          /\ handlers' = IF drop THEN Drop(handlers, fd) ELSE handlers
          /\ fds' = IF drop /\ fd \in DOMAIN fds THEN Drop(fds, fd) ELSE fds
    /\ UNCHANGED <<lastReport, zeroed, queryVars, inferVars>>

\* The IOLoop dispatches only for a descriptor it watches.
_handle_events(fd, events) ==
    /\ fd \in DOMAIN handlers
    /\ LET read_fd == IF BitAnd(events, READ) # 0 THEN fd ELSE ARES_SOCKET_BAD
           write_fd == IF BitAnd(events, WRITE) # 0 THEN fd ELSE ARES_SOCKET_BAD
       IN last' = [calls |-> <<<<"process_fd", read_fd, write_fd>>>>, raised |-> "none"]
    /\ UNCHANGED <<bridgeVars, queryVars, inferVars>>

(***************************************************************************)
(* Query adapter.                                                          *)
(***************************************************************************)
\* lines 82-87: the family of one address, from its text
InferFamily(addr) ==
    IF Contains(".", addr) THEN AF_INET
    ELSE IF Contains(":", addr) THEN AF_INET6
    ELSE AF_UNSPEC

\* lines 80-92: the loop over the addresses; the first mismatch raises
RECURSIVE AddrInfoLoop(_, _, _, _)
AddrInfoLoop(addresses, port, family, addrinfo) ==
    IF addresses = <<>> THEN Return(addrinfo)
    ELSE LET addr == Head(addresses)
             af == InferFamily(addr)
         IN IF family # AF_UNSPEC /\ family # af
            THEN Raise(FamilyMismatch(family, af))
            ELSE AddrInfoLoop(Tail(addresses), port, family,
                              Append(addrinfo, <<af, <<addr, port>>>>))

\* the loop dropping the addresses of another family instead of raising
RECURSIVE AddrInfoFilterLoop(_, _, _, _)
AddrInfoFilterLoop(addresses, port, family, addrinfo) ==
    IF addresses = <<>> THEN Return(addrinfo)
    ELSE LET addr == Head(addresses)
             af == InferFamily(addr)
         IN IF family # AF_UNSPEC /\ family # af
            THEN AddrInfoFilterLoop(Tail(addresses), port, family, addrinfo)
            ELSE AddrInfoFilterLoop(Tail(addresses), port, family,
                                    Append(addrinfo, <<af, <<addr, port>>>>))

AddrInfoFiltering(addresses, port, family) ==
    AddrInfoFilterLoop(addresses, port, family, <<>>)

\* the loop inserting each entry at the front of addrinfo
RECURSIVE AddrInfoPrependLoop(_, _, _, _)
AddrInfoPrependLoop(addresses, port, family, addrinfo) ==
    IF addresses = <<>> THEN Return(addrinfo)
    ELSE LET addr == Head(addresses)
             af == InferFamily(addr)
         IN IF family # AF_UNSPEC /\ family # af
            THEN Raise(FamilyMismatch(family, af))
            ELSE AddrInfoPrependLoop(Tail(addresses), port, family,
                                     <<<<af, <<addr, port>>>>>> \o addrinfo)

AddrInfoPrepending(addresses, port, family) ==
    AddrInfoPrependLoop(addresses, port, family, <<>>)

AddrInfo(addresses, port, family) == AddrInfoLoop(addresses, port, family, <<>>)

\* resolve() building the address list before it looks at the error code
ResolveResumeErrorLast(host, port, family, result, error) ==
    LET built == AddrInfo(result, port, family)
    IN IF built.kind = "raise" THEN built
       ELSE IF error # 0 THEN Raise(AresError(error, host))
       ELSE built

\* lines 73-92: resolve() from the completion callback's arguments on
ResolveResume(host, port, family, result, error) ==
    IF error # 0 THEN Raise(AresError(error, host))
    ELSE AddrInfo(result, port, family)

\* query() returning the first record of the result only
QueryResumeFirstRecord(hostname, result, error) ==
    IF error # 0 THEN Raise(AresError(error, hostname))
    ELSE Return(IF result = <<>> THEN result ELSE <<Head(result)>>)

\* lines 118-124: query() from the completion callback's arguments on
QueryResume(hostname, result, error) ==
    IF error # 0 THEN Raise(AresError(error, hostname))
    ELSE Return(result)

\* the assertion without upper()
RecordTypeOkCaseSensitive(record_type) == record_type \in DOMAIN RTYPES

\* line 113: the assertion on the record type
RecordTypeOk(record_type) == upper(record_type) \in DOMAIN RTYPES

\* line 114
QueryType(record_type) == RTYPES[upper(record_type)]


\* The coroutine's future is set once, with a result or with an exception.
Finish(call, outcome) ==
    [call EXCEPT !.pc = "done",
                 !.outcome = outcome,
                 !.returned = @ + (IF outcome.kind = "return" THEN 1 ELSE 0),
                 !.raised = @ + (IF outcome.kind = "raise" THEN 1 ELSE 0)]

\* The callback made by gen.Callback(1) stores the arguments it is called with.
Fire(call, result, error) ==
    [call EXCEPT !.fired = @ + 1, !.cbargs = <<result, error>>]

\* resolve() without the is_valid_ip shortcut: every host goes to the engine
ResolveCallNoLiteralCheck(c, host, port, family) ==
    /\ calls[c].pc = "idle"
    /\ calls' = [calls EXCEPT ![c] =
                    [@ EXCEPT !.op = "resolve", !.host = host, !.port = port,
                              !.family = family, !.pc = "waiting",
                              !.request = <<"gethostbyname", host, family>>,
                              !.lookups = @ + 1]]
    /\ inflight' = inflight \cup {c}
    /\ last' = [calls |-> <<<<"gethostbyname", host, family>>>>, raised |-> "none"]
    /\ UNCHANGED <<bridgeVars, inferVars>>

\* resolve(host, port, family) up to its return (an IP literal) or to its
\* suspension in gen.Wait(1) (anything else)
ResolveCall(c, host, port, family) ==
    /\ calls[c].pc = "idle"
    /\ LET frame == [calls[c] EXCEPT !.op = "resolve", !.host = host,
                                     !.port = port, !.family = family]
       IN IF is_valid_ip(host) THEN
              /\ calls' = [calls EXCEPT ![c] = Finish(frame, AddrInfo(<<host>>, port, family))]
              /\ inflight' = inflight
              /\ last' = Quiet
          ELSE
              /\ calls' = [calls EXCEPT ![c] =
                              [frame EXCEPT !.pc = "waiting",
                                            !.request = <<"gethostbyname", host, family>>,
                                            !.lookups = @ + 1]]
              /\ inflight' = inflight \cup {c}
              /\ last' = [calls |-> <<<<"gethostbyname", host, family>>>>, raised |-> "none"]
    /\ UNCHANGED <<bridgeVars, inferVars>>

\* resolve() making the callback only after gethostbyname has returned: a
\* completion fired during the call finds no callback and the coroutine
\* suspends for good
ResolveCallInlineLost(c, host, port, family, result, error) ==
    /\ calls[c].pc = "idle"
    /\ ~is_valid_ip(host)
    /\ calls' = [calls EXCEPT ![c] =
                    [@ EXCEPT !.op = "resolve", !.host = host, !.port = port,
                              !.family = family, !.pc = "waiting",
                              !.request = <<"gethostbyname", host, family>>,
                              !.lookups = @ + 1, !.fired = @ + 1]]
    /\ inflight' = inflight
    /\ last' = [calls |-> <<<<"gethostbyname", host, family>>>>, raised |-> "none"]
    /\ UNCHANGED <<bridgeVars, inferVars>>

\* resolve() when the engine fires the completion callback during
\* gethostbyname: gen.Wait(1) finds the arguments stored and does not suspend
ResolveCallInline(c, host, port, family, result, error) ==
    /\ calls[c].pc = "idle"
    /\ ~is_valid_ip(host)
    /\ LET frame == [calls[c] EXCEPT !.op = "resolve", !.host = host,
                                     !.port = port, !.family = family,
                                     !.request = <<"gethostbyname", host, family>>,
                                     !.lookups = @ + 1]
       IN calls' = [calls EXCEPT ![c] =
                       Finish(Fire(frame, result, error),
                              ResolveResume(host, port, family, result, error))]
    /\ inflight' = inflight
    /\ last' = [calls |-> <<<<"gethostbyname", host, family>>>>, raised |-> "none"]
    /\ UNCHANGED <<bridgeVars, inferVars>>

\* the completion stored under a key the coroutine does not wait for: the
\* callback fires and the coroutine stays suspended
ResolveCompletionLost(c, result, error) ==
    /\ c \in inflight
    /\ calls[c].op = "resolve"
    /\ calls[c].pc = "waiting"
    /\ calls' = [calls EXCEPT ![c] = Fire(@, result, error)]
    /\ inflight' = inflight \ {c}
    /\ last' = Quiet
    /\ UNCHANGED <<bridgeVars, inferVars>>

\* one callback slot shared by the resolver instead of one per call: the
\* completion resumes every suspended resolve() with the same arguments
ResolveCompletionShared(c, result, error) ==
    /\ c \in inflight
    /\ calls[c].op = "resolve"
    /\ calls[c].pc = "waiting"
    /\ calls' = [d \in Callers |->
                    IF d = c
                    THEN Finish(Fire(calls[d], result, error),
                                ResolveResume(calls[d].host, calls[d].port,
                                              calls[d].family, result, error))
                    ELSE IF calls[d].op = "resolve" /\ calls[d].pc = "waiting"
                    THEN Finish(calls[d],
                                ResolveResume(calls[d].host, calls[d].port,
                                              calls[d].family, result, error))
                    ELSE calls[d]]
    /\ inflight' = inflight \ {c}
    /\ last' = Quiet
    /\ UNCHANGED <<bridgeVars, inferVars>>

\* The engine fires the completion callback of c's forward lookup: the
\* callback stores its arguments and the coroutine runs from line 72 to its end.
ResolveCompletion(c, result, error) ==
    /\ c \in inflight
    /\ calls[c].op = "resolve"
    /\ calls[c].pc = "waiting"
    /\ calls' = [calls EXCEPT ![c] =
                    Finish(Fire(@, result, error),
                           ResolveResume(@.host, @.port, @.family, result, error))]
    /\ inflight' = inflight \ {c}
    /\ last' = Quiet
    /\ UNCHANGED <<bridgeVars, inferVars>>

\* query(hostname, record_type) up to the failed assertion or to its
\* suspension in gen.Wait(1)
QueryCall(c, hostname, record_type) ==
    /\ calls[c].pc = "idle"
    /\ LET frame == [calls[c] EXCEPT !.op = "query", !.host = hostname,
                                     !.record_type = record_type]
       IN IF ~RecordTypeOk(record_type) THEN
              /\ calls' = [calls EXCEPT ![c] = Finish(frame, Raise(AssertionError))]
              /\ inflight' = inflight
              /\ last' = [calls |-> <<>>, raised |-> "AssertionError"]
          ELSE
              /\ calls' = [calls EXCEPT ![c] =
                              [frame EXCEPT !.pc = "waiting",
                                            !.request = <<"query", hostname, QueryType(record_type)>>,
                                            !.lookups = @ + 1]]
              /\ inflight' = inflight \cup {c}
              /\ last' = [calls |-> <<<<"query", hostname, QueryType(record_type)>>>>,
                          raised |-> "none"]
    /\ UNCHANGED <<bridgeVars, inferVars>>

\* query() when the engine fires the completion callback during channel.query
QueryCallInline(c, hostname, record_type, result, error) ==
    /\ calls[c].pc = "idle"
    /\ RecordTypeOk(record_type)
    /\ LET frame == [calls[c] EXCEPT !.op = "query", !.host = hostname,
                                     !.record_type = record_type,
                                     !.request = <<"query", hostname, QueryType(record_type)>>,
                                     !.lookups = @ + 1]
       IN calls' = [calls EXCEPT ![c] =
                       Finish(Fire(frame, result, error),
                              QueryResume(hostname, result, error))]
    /\ inflight' = inflight
    /\ last' = [calls |-> <<<<"query", hostname, QueryType(record_type)>>>>, raised |-> "none"]
    /\ UNCHANGED <<bridgeVars, inferVars>>

\* the completion of a typed query stored without running the coroutine: the
\* callback fires and the caller stays suspended
QueryCompletionLost(c, result, error) ==
    /\ c \in inflight
    /\ calls[c].op = "query"
    /\ calls[c].pc = "waiting"
    /\ calls' = [calls EXCEPT ![c] = Fire(@, result, error)]
    /\ inflight' = inflight \ {c}
    /\ last' = Quiet
    /\ UNCHANGED <<bridgeVars, inferVars>>

\* The engine fires the completion callback of c's typed query.
QueryCompletion(c, result, error) ==
    /\ c \in inflight
    /\ calls[c].op = "query"
    /\ calls[c].pc = "waiting"
    /\ calls' = [calls EXCEPT ![c] =
                    Finish(Fire(@, result, error),
                           QueryResume(@.host, result, error))]
    /\ inflight' = inflight \ {c}
    /\ last' = Quiet
    /\ UNCHANGED <<bridgeVars, inferVars>>

(***************************************************************************)
(* The resolver as a whole: two callers, the engine reporting socket       *)
(* states and completing lookups in any order, the IOLoop dispatching.     *)
(***************************************************************************)
Hosts == {V6, NameA}
Ports == {80}
ReqFamilies == {AF_UNSPEC, AF_INET}
RecordTypes == {<<"m", "X">>, <<"m">>}
EngineAddrs == SeqsUpTo({V4, V6}, 1)
EngineRecords == {<<"r1">>, <<"r1", "r2">>}
EngineErrors == 0..1
\* pycares passes no result along with an error code.
EngineAddrsFor(error) == IF error = 0 THEN EngineAddrs ELSE {<<>>}
EngineRecordsFor(error) == IF error = 0 THEN EngineRecords ELSE {<<>>}

Init ==
    /\ fds = EmptyMap
    /\ handlers = EmptyMap
    /\ lastReport = [fd \in FDs |-> <<FALSE, FALSE>>]
    /\ zeroed = {}
    /\ calls = [c \in Callers |-> IdleCall]
    /\ inflight = {}
    /\ last = Quiet
    /\ address = <<>>
    /\ address_family = -1
    /\ ready_fd = ARES_SOCKET_BAD
    /\ ready_events = 0

SockState ==
    \E fd \in FDs, readable \in BOOLEAN, writable \in BOOLEAN, loop_ok \in BOOLEAN :
        _sock_state_cb(fd, readable, writable, loop_ok)

Dispatch == \E fd \in DOMAIN handlers, events \in EventSets : _handle_events(fd, events)

Resolve ==
    \E c \in Callers :
        /\ calls[c].pc = "idle"
        /\ \E host \in Hosts, port \in Ports, family \in ReqFamilies :
               ResolveCall(c, host, port, family)

ResolveInline ==
    \E c \in Callers :
        /\ calls[c].pc = "idle"
        /\ \E host \in Hosts, port \in Ports, family \in ReqFamilies, error \in EngineErrors :
               \E result \in EngineAddrsFor(error) :
                   ResolveCallInline(c, host, port, family, result, error)

ResolveDone ==
    \E c \in inflight :
        /\ calls[c].op = "resolve"
        /\ \E error \in EngineErrors :
               \E result \in EngineAddrsFor(error) : ResolveCompletion(c, result, error)

Query ==
    \E c \in Callers :
        /\ calls[c].pc = "idle"
        /\ \E hostname \in {NameA}, record_type \in RecordTypes :
               QueryCall(c, hostname, record_type)

QueryInline ==
    \E c \in Callers :
        /\ calls[c].pc = "idle"
        /\ \E hostname \in {NameA}, record_type \in RecordTypes, error \in EngineErrors :
               \E result \in EngineRecordsFor(error) :
                   QueryCallInline(c, hostname, record_type, result, error)

QueryDone ==
    \E c \in inflight :
        /\ calls[c].op = "query"
        /\ \E error \in EngineErrors :
               \E result \in EngineRecordsFor(error) : QueryCompletion(c, result, error)

Next ==
    \/ SockState
    \/ Dispatch
    \/ Resolve
    \/ ResolveInline
    \/ ResolveDone
    \/ Query
    \/ QueryInline
    \/ QueryDone

Spec == Init /\ [][Next]_vars

(***************************************************************************)
(* One call taken alone, over every input of the bounded sets: every       *)
(* literal and name, port, family and record-type text, and an engine      *)
(* that answers with any address list or record list and any error code.   *)
(***************************************************************************)
AllHosts == IPLiterals \cup HostNames
AllPorts == {53, 80}
AllAddrs == SeqsUpTo(AddrPool, MaxAddrs)
AllRecords == {<<>>, <<"r1">>, <<"r1", "r2">>}
AllErrors == 0..MaxErr

LowerChar(ch) ==
    IF \E i \in 1..26 : UpperCase[i] = ch
    THEN LowerCase[CHOOSE i \in 1..26 : UpperCase[i] = ch]
    ELSE ch

\* Every way of writing a record-type name in upper and lower case.
RECURSIVE CaseVariants(_)
CaseVariants(name) ==
    IF name = <<>> THEN {<<>>}
    ELSE {<<ch>> \o rest : ch \in {name[1], LowerChar(name[1])},
                           rest \in CaseVariants(Tail(name))}

TypeAlphabet == {"a", "A", "m", "M", "x", "X", "n", "S", "b", " "}
NearMisses ==
    UNION {{Append(name, " "), <<" ">> \o name, Tail(name), Append(name, name[1])} :
              name \in DOMAIN RTYPES}
TypeInputs ==
    SeqsUpTo(TypeAlphabet, MaxTypeLen)
        \cup UNION {CaseVariants(name) : name \in DOMAIN RTYPES}
        \cup NearMisses

OneResolve ==
    /\ calls[1].pc = "idle"
    /\ \E host \in AllHosts, port \in AllPorts, family \in Families :
           ResolveCall(1, host, port, family)

OneResolveInline ==
    /\ calls[1].pc = "idle"
    /\ \E host \in HostNames, port \in AllPorts, family \in Families,
          result \in AllAddrs, error \in AllErrors :
           ResolveCallInline(1, host, port, family, result, error)

OneResolveDone ==
    /\ 1 \in inflight
    /\ calls[1].op = "resolve"
    /\ \E result \in AllAddrs, error \in AllErrors : ResolveCompletion(1, result, error)

OneQuery ==
    /\ calls[1].pc = "idle"
    /\ \E hostname \in HostNames, record_type \in TypeInputs :
           QueryCall(1, hostname, record_type)

OneQueryInline ==
    /\ calls[1].pc = "idle"
    /\ \E hostname \in HostNames, record_type \in TypeInputs,
          result \in AllRecords, error \in AllErrors :
           QueryCallInline(1, hostname, record_type, result, error)

OneQueryDone ==
    /\ 1 \in inflight
    /\ calls[1].op = "query"
    /\ \E result \in AllRecords, error \in AllErrors : QueryCompletion(1, result, error)

NextCall ==
    \/ OneResolve
    \/ OneResolveInline
    \/ OneResolveDone
    \/ OneQuery
    \/ OneQueryInline
    \/ OneQueryDone

SpecCall == Init /\ [][NextCall]_vars

(***************************************************************************)
(* The family inference taken alone, over every text of up to MaxLen       *)
(* characters of the alphabet and the addresses of the pool.               *)
(***************************************************************************)
AddrAlphabet == {".", ":", "1", "f"}
AddrInputs == SeqsUpTo(AddrAlphabet, MaxLen) \cup AddrPool

InitInfer ==
    /\ fds = EmptyMap
    /\ handlers = EmptyMap
    /\ lastReport = [fd \in FDs |-> <<FALSE, FALSE>>]
    /\ zeroed = {}
    /\ calls = [c \in Callers |-> IdleCall]
    /\ inflight = {}
    /\ last = Quiet
    /\ address \in AddrInputs
    /\ address_family = -1
    /\ ready_fd = ARES_SOCKET_BAD
    /\ ready_events = 0

Infer ==
    /\ address_family = -1
    /\ address_family' = InferFamily(address)
    /\ UNCHANGED <<bridgeVars, queryVars, last, address, ready_fd, ready_events>>

NextInfer == Infer

SpecInfer == InitInfer /\ [][NextInfer]_vars

(***************************************************************************)
(* Properties.                                                             *)
(***************************************************************************)
\* The mask a report (readable, writable) stands for.
ReportedMask(report) ==
    (IF report[1] THEN READ ELSE 0) + (IF report[2] THEN WRITE ELSE 0)

\* C1: after any sequence of socket-state reports, interleaved with
\* dispatches and calls, a descriptor has an entry in fds exactly when the
\* mask last reported for it was non-zero, the entry holds that mask, and no
\* entry holds zero.
C1_TableMirrorsLastReport ==
    \A fd \in FDs :
        /\ fd \in DOMAIN fds <=> ReportedMask(lastReport[fd]) # 0
        /\ fd \in DOMAIN fds =>
               /\ fds[fd] = ReportedMask(lastReport[fd])
               /\ fds[fd] # 0

\* Descriptor 8 tracked for writing only, by an update of its entry, next to
\* descriptor 7 whose last report was zero.
C1_Witness ==
    /\ 8 \in DOMAIN fds
    /\ fds[8] = WRITE
    /\ last = [calls |-> <<<<"update_handler", 8, WRITE>>>>, raised |-> "none"]
    /\ 7 \notin DOMAIN fds
    /\ lastReport[7] = <<FALSE, FALSE>>

\* C2: a call that issued an engine request and whose completion callback has
\* fired (the engine fires it at most once) has resumed its caller exactly
\* once, with a result or with a failure and never both; no call resumes its
\* caller more than once.
C2_ResumedExactlyOnce ==
    \A c \in Callers :
        LET k == calls[c] IN
        /\ k.returned + k.raised <= 1
        /\ k.returned = 1 <=> k.outcome.kind = "return"
        /\ k.raised = 1 <=> k.outcome.kind = "raise"
        /\ (k.lookups >= 1 /\ k.fired >= 1) =>
               /\ k.pc = "done"
               /\ k.returned + k.raised = 1

\* One caller resumed with a result and the other with the engine's error,
\* each after its own completion callback.
C2_Witness ==
    /\ calls[1].lookups = 1 /\ calls[1].fired = 1
    /\ calls[1].returned = 1 /\ calls[1].raised = 0
    /\ calls[2].lookups = 1 /\ calls[2].fired = 1
    /\ calls[2].returned = 0 /\ calls[2].raised = 1
    /\ calls[2].outcome.exc.type = "ares"

LiteralCall(k) == k.op = "resolve" /\ k.pc # "idle" /\ is_valid_ip(k.host)

\* C3 as stated: for every IP literal, port and requested family, resolve
\* makes no engine call and returns the single entry echoing the literal with
\* the requested port.
C3_LiteralAlwaysEchoed ==
    \A c \in Callers :
        LET k == calls[c] IN
        LiteralCall(k) =>
            /\ k.lookups = 0
            /\ k.outcome.kind = "return"
            /\ Len(k.outcome.value) = 1
            /\ k.outcome.value[1][2] = <<k.host, k.port>>

\* C3 amended: for every IP literal, port and requested family, resolve makes
\* no engine call; it returns the single entry echoing the literal with the
\* requested port when the requested family is unspecified or is the family
\* inferred for the literal, and fails with a family mismatch otherwise.
C3_LiteralNoEngineCall ==
    \A c \in Callers :
        LET k == calls[c] IN
        LiteralCall(k) =>
            /\ k.lookups = 0 /\ k.fired = 0 /\ k.request = <<>>
            /\ c \notin inflight
            /\ k.pc = "done"
            /\ \/ /\ k.outcome.kind = "return"
                  /\ Len(k.outcome.value) = 1
                  /\ k.outcome.value[1][2] = <<k.host, k.port>>
                  /\ k.family # AF_UNSPEC => k.outcome.value[1][1] = k.family
               \/ /\ k.outcome.kind = "raise"
                  /\ k.outcome.exc.type = "family"
                  /\ k.family # AF_UNSPEC
                  /\ k.outcome.exc.a = k.family
                  /\ k.outcome.exc.b # k.family
            /\ k.family = AF_UNSPEC => k.outcome.kind = "return"

\* resolve("::1", 53, AF_INET6) has returned [(AF_INET6, ("::1", 53))] and
\* the engine was never called.
C3_Witness ==
    /\ calls[1].op = "resolve" /\ calls[1].pc = "done"
    /\ calls[1].host = V6 /\ calls[1].port = 53 /\ calls[1].family = AF_INET6
    /\ calls[1].outcome = Return(<<<<AF_INET6, <<V6, 53>>>>>>)
    /\ calls[1].lookups = 0
    /\ inflight = {}

\* A resolve() whose completion callback fired with these arguments.
Completed(k, op) == k.op = op /\ k.fired = 1

\* C4: when resolve was called with a concrete family and the engine
\* succeeded with a list in which some address, at any position, has an
\* inferred family other than the requested one, the call fails with a
\* family mismatch and returns no list.
C4_MismatchFailsWholeCall ==
    \A c \in Callers :
        LET k == calls[c] IN
        (/\ Completed(k, "resolve")
         /\ k.cbargs[2] = 0
         /\ k.family # AF_UNSPEC
         /\ \E i \in 1..Len(k.cbargs[1]) : InferFamily(k.cbargs[1][i]) # k.family) =>
            /\ k.pc = "done"
            /\ k.outcome.kind = "raise"
            /\ k.outcome.exc.type = "family"
            /\ k.outcome.exc.a = k.family
            /\ k.outcome.value = <<>>
            /\ k.returned = 0

\* The engine answered an AF_INET request with an IPv4 address followed by
\* an IPv6 one, and the call failed.
C4_Witness ==
    /\ Completed(calls[1], "resolve")
    /\ calls[1].family = AF_INET
    /\ calls[1].cbargs = <<<<V4, V6>>, 0>>
    /\ calls[1].outcome = Raise(FamilyMismatch(AF_INET, AF_INET6))

\* Whether text is name with some of its letters in lower case.
IsCasingVariant(text, name) ==
    /\ Len(text) = Len(name)
    /\ \A i \in 1..Len(name) : text[i] = name[i] \/ text[i] = LowerChar(name[i])

\* C5: query accepts every casing variant of each of the ten record-type
\* names and asks the engine for the code of that name; for any other text it
\* fails on the assertion, makes no engine call and leaves nobody suspended.
C5_RecordTypeValidation ==
    \A c \in Callers :
        LET k == calls[c] IN
        (k.op = "query" /\ k.pc # "idle") =>
            IF \E name \in DOMAIN RTYPES : IsCasingVariant(k.record_type, name)
            THEN /\ k.lookups = 1
                 /\ \A name \in DOMAIN RTYPES :
                        IsCasingVariant(k.record_type, name) =>
                            k.request = <<"query", k.host, RTYPES[name]>>
                 /\ k.outcome.exc.type # "assert"
            ELSE /\ k.pc = "done"
                 /\ k.outcome = Raise(AssertionError)
                 /\ k.lookups = 0 /\ k.request = <<>>
                 /\ c \notin inflight

\* query(host, "nApTr") suspended on the engine's NAPTR query.
C5_Witness ==
    /\ calls[1].op = "query" /\ calls[1].pc = "waiting"
    /\ calls[1].record_type = <<"n", "A", "p", "T", "r">>
    /\ calls[1].request = <<"query", calls[1].host, "QUERY_TYPE_NAPTR">>
    /\ 1 \in inflight

\* C6: when the completion callback reports a non-zero error code, resolve
\* and query fail with the error carrying that code, the engine's message
\* for it and the host name passed in; nothing is returned, the result is
\* not checked for its families, and the call made one engine lookup only.
C6_EngineErrorSurfaced ==
    \A c \in Callers :
        LET k == calls[c] IN
        (k.fired = 1 /\ k.cbargs[2] # 0) =>
            /\ k.pc = "done"
            /\ k.outcome.kind = "raise"
            /\ k.outcome.exc.type = "ares"
            /\ k.outcome.exc.a = k.cbargs[2]
            /\ k.outcome.exc.msg = strerror(k.cbargs[2])
            /\ k.outcome.exc.host = k.host
            /\ k.outcome.value = <<>>
            /\ k.returned = 0
            /\ k.lookups = 1
            /\ c \notin inflight

\* The engine reported error 2 for an AF_INET request, passing an IPv6
\* address along; the call failed with the engine's error.
C6_Witness ==
    /\ Completed(calls[1], "resolve")
    /\ calls[1].family = AF_INET
    /\ calls[1].cbargs = <<<<V6>>, 2>>
    /\ calls[1].outcome = Raise(AresError(2, calls[1].host))
    /\ calls[1].lookups = 1

\* C7: an address containing ':' is inferred IPv6, one containing '.' (and
\* no ':') IPv4, one containing neither unspecified; for every text,
\* including those with both characters.
C7_ColonMeansIPv6 ==
    address_family # -1 =>
        /\ Contains(":", address) => address_family = AF_INET6
        /\ (Contains(".", address) /\ ~Contains(":", address)) => address_family = AF_INET
        /\ (~Contains(".", address) /\ ~Contains(":", address)) => address_family = AF_UNSPEC

\* C8: when the engine succeeds and no address mismatches the requested
\* family, resolve returns one entry per address, in the engine's order,
\* each with the address's inferred family, the address and the caller's port.
C8_OneEntryPerAddressInOrder ==
    \A c \in Callers :
        LET k == calls[c] IN
        (/\ Completed(k, "resolve")
         /\ k.cbargs[2] = 0
         /\ \/ k.family = AF_UNSPEC
            \/ \A i \in 1..Len(k.cbargs[1]) : InferFamily(k.cbargs[1][i]) = k.family) =>
            /\ k.pc = "done"
            /\ k.outcome.kind = "return"
            /\ Len(k.outcome.value) = Len(k.cbargs[1])
            /\ \A i \in 1..Len(k.cbargs[1]) :
                   k.outcome.value[i] =
                       <<InferFamily(k.cbargs[1][i]), <<k.cbargs[1][i], k.port>>>>

\* The engine answered an unspecified-family request with an IPv6 address
\* followed by an IPv4 one; both came back, in that order, with port 53.
C8_Witness ==
    /\ Completed(calls[1], "resolve")
    /\ calls[1].family = AF_UNSPEC /\ calls[1].port = 53
    /\ calls[1].cbargs = <<<<V6, V4>>, 0>>
    /\ calls[1].outcome = Return(<<<<AF_INET6, <<V6, 53>>>>, <<AF_INET, <<V4, 53>>>>>>)

\* C9: when the completion callback of a typed query reports success, query
\* returns the result the engine passed, unchanged.
C9_QueryReturnsEngineResult ==
    \A c \in Callers :
        LET k == calls[c] IN
        (Completed(k, "query") /\ k.cbargs[2] = 0) =>
            /\ k.pc = "done"
            /\ k.outcome = Return(k.cbargs[1])
            /\ k.returned = 1 /\ k.raised = 0

\* query(host, "TXT") returned the two records the engine passed.
C9_Witness ==
    /\ Completed(calls[1], "query")
    /\ calls[1].record_type = <<"T", "X", "T">>
    /\ calls[1].cbargs = <<<<"r1", "r2">>, 0>>
    /\ calls[1].outcome = Return(<<"r1", "r2">>)

\* What call k's caller received is what the engine passed to k's callback.
OwnCompletion(k) ==
    /\ k.pc = "done"
    /\ IF k.cbargs[2] # 0
       THEN /\ k.outcome.kind = "raise"
            /\ k.outcome.exc.a = k.cbargs[2]
            /\ k.outcome.exc.host = k.host
       ELSE IF k.op = "query" THEN k.outcome = Return(k.cbargs[1])
       ELSE \/ k.outcome.kind = "raise" /\ k.outcome.exc.type = "family"
            \/ /\ k.outcome.kind = "return"
               /\ Len(k.outcome.value) = Len(k.cbargs[1])
               /\ \A i \in 1..Len(k.cbargs[1]) :
                      k.outcome.value[i][2] = <<k.cbargs[1][i], k.port>>

\* C10: with several calls in flight, a step in which one call's completion
\* callback fires resumes that call's caller with that completion's result
\* or error and leaves every other call as it was; a suspended call changes
\* only by its own completion, whatever the order of completions.
C10_CompletionsIndependent ==
    [][\A c \in Callers :
           /\ calls'[c].fired = calls[c].fired + 1 =>
                  /\ OwnCompletion(calls'[c])
                  /\ \A d \in Callers \ {c} : calls'[d] = calls[d]
           /\ (calls[c].pc = "waiting" /\ calls'[c] # calls[c]) =>
                  calls'[c].fired = calls[c].fired + 1]_vars

\* Caller 2's query has completed with the engine's error while caller 1's
\* resolve, issued first or second, is still suspended.
C10_Witness ==
    /\ calls[1].op = "resolve" /\ calls[1].pc = "waiting" /\ 1 \in inflight
    /\ calls[2].op = "query" /\ calls[2].pc = "done" /\ calls[2].fired = 1
    /\ calls[2].outcome.exc.type = "ares"

(***************************************************************************)
(* The descriptor bridge taken alone: the engine reporting socket states   *)
(* and the IOLoop dispatching, no call in flight.                          *)
(***************************************************************************)
NextBridge ==
    \/ SockState
    \/ Dispatch

SpecBridge == Init /\ [][NextBridge]_vars

\* The call the handler of this step made to the IOLoop for fd, if it is one
\* of the names given.  A step that is not a stuttering step and leaves such
\* a call in last is a _sock_state_cb step.
Issued(names, fd) ==
    /\ vars' # vars
    /\ last'.calls # <<>>
    /\ last'.calls[1][1] \in names
    /\ last'.calls[1][2] = fd

\* C11: once a zero mask has been reported for fd, the IOLoop no longer
\* watches fd, and no update_handler or remove_handler is issued for fd
\* before an add_handler for it, also when zero is reported twice in a row.
C11_NoRawCallAfterZero ==
    [][\A fd \in FDs :
           fd \in zeroed =>
               /\ fd \notin DOMAIN handlers
               /\ ~Issued({"update_handler", "remove_handler"}, fd)]_vars

\* C12: starting from an empty table, the IOLoop's registrations equal the
\* tracking table after every step; add_handler is issued only for an fd the
\* loop does not watch and update_handler only for one it watches; after
\* either, the loop holds the mask just reported, not its union with the
\* old one.
C12_LoopMirrorsTable ==
    [][/\ handlers' = fds'
       /\ \A fd \in FDs :
              /\ Issued({"add_handler"}, fd) =>
                     /\ fd \notin DOMAIN handlers
                     /\ fd \in DOMAIN handlers'
                     /\ handlers'[fd] = ReportedMask(lastReport'[fd])
              /\ Issued({"update_handler"}, fd) =>
                     /\ fd \in DOMAIN handlers
                     /\ fd \in DOMAIN handlers'
                     /\ handlers'[fd] = ReportedMask(lastReport'[fd])]_vars

\* Descriptor 7 just updated to reading only while descriptor 8 is watched
\* for both, in the loop as in the table.
C12_Witness ==
    /\ last = [calls |-> <<<<"update_handler", 7, READ>>>>, raised |-> "none"]
    /\ handlers = fds
    /\ DOMAIN fds = {7, 8}
    /\ fds[7] = READ
    /\ fds[8] = READ + WRITE

\* C13: a zero report for an fd that has no entry in the table fails, and
\* the table is left as it was.
C13_ZeroForUntrackedFails ==
    [][\A fd \in FDs :
           (Issued({"remove_handler"}, fd) /\ fd \notin DOMAIN fds) =>
               /\ last'.raised \in {"KeyError", "IOError"}
               /\ fds' = fds]_vars

\* The zero report for the untracked descriptor 7 raised KeyError and the
\* entry of descriptor 8 is still there.
C13_Witness ==
    /\ last = [calls |-> <<<<"remove_handler", 7, 0>>>>, raised |-> "KeyError"]
    /\ DOMAIN fds = {8}
    /\ fds[8] = WRITE
    /\ lastReport[7] = <<FALSE, FALSE>>

(***************************************************************************)
(* _handle_events taken alone: one dispatch of any combination of the      *)
(* IOLoop's event bits for a descriptor of any table the bridge can hold.  *)
(***************************************************************************)
Tables == UNION {[S -> {READ, WRITE, READ + WRITE}] : S \in SUBSET FDs}
ReadyEvents ==
    {r + w + e + h : r \in {0, READ}, w \in {0, WRITE}, e \in {0, 8}, h \in {0, 16}} \ {0}

InitDispatch ==
    /\ fds \in Tables
    /\ handlers = fds
    /\ lastReport = [fd \in FDs |->
                        IF fd \in DOMAIN fds
                        THEN <<BitAnd(fds[fd], READ) # 0, BitAnd(fds[fd], WRITE) # 0>>
                        ELSE <<FALSE, FALSE>>]
    /\ zeroed = {}
    /\ calls = [c \in Callers |-> IdleCall]
    /\ inflight = {}
    /\ last = Quiet
    /\ address = <<>>
    /\ address_family = -1
    /\ ready_fd \in DOMAIN fds
    /\ ready_events \in ReadyEvents

DispatchReady == _handle_events(ready_fd, ready_events)

NextDispatch == DispatchReady

SpecDispatch == InitDispatch /\ [][NextDispatch]_vars

\* C14: a dispatch for fd with events makes exactly one process_fd call and
\* nothing else; its read descriptor is fd if the READ bit of events is set
\* and ARES_SOCKET_BAD otherwise, its write descriptor is fd if the WRITE bit
\* is set and ARES_SOCKET_BAD otherwise, so both are ARES_SOCKET_BAD for
\* events with neither bit.
C14_OneProcessFdPerDispatch ==
    last # Quiet =>
        /\ last.raised = "none"
        /\ Len(last.calls) = 1
        /\ last.calls[1] =
               <<"process_fd",
                 IF (ready_events \div READ) % 2 = 1 THEN ready_fd ELSE ARES_SOCKET_BAD,
                 IF (ready_events \div WRITE) % 2 = 1 THEN ready_fd ELSE ARES_SOCKET_BAD>>

\* An error-only event for descriptor 8 was dispatched: the engine was called
\* with no descriptor on either side.
C14_Witness ==
    /\ ready_fd = 8
    /\ ready_events = ERROR
    /\ last.calls = <<<<"process_fd", ARES_SOCKET_BAD, ARES_SOCKET_BAD>>>>

SameExcept(old, new, fd) ==
    \A g \in FDs \ {fd} :
        /\ g \in DOMAIN new <=> g \in DOMAIN old
        /\ g \in DOMAIN old => new[g] = old[g]

\* C15: a step that changes the tracking table or the IOLoop's registrations
\* is a _sock_state_cb call (a resolve, query, completion or dispatch step
\* changes neither), it changes at most the entry of the fd it names, and it
\* touches no call.
C15_OnlySockStateChangesTables ==
    [][(fds' # fds \/ handlers' # handlers) =>
           /\ last'.calls # <<>>
           /\ last'.calls[1][1] \in {"add_handler", "update_handler", "remove_handler"}
           /\ SameExcept(fds, fds', last'.calls[1][2])
           /\ SameExcept(handlers, handlers', last'.calls[1][2])
           /\ UNCHANGED queryVars]_vars

\* Both descriptors tracked and watched, a resolve suspended, a query
\* completed, and the last step was a dispatch that found nothing readable
\* or writable.
C15_Witness ==
    /\ last.calls = <<<<"process_fd", ARES_SOCKET_BAD, ARES_SOCKET_BAD>>>>
    /\ DOMAIN fds = {7, 8}
    /\ handlers = fds
    /\ calls[1].op = "resolve" /\ calls[1].pc = "waiting"
    /\ calls[2].op = "query" /\ calls[2].pc = "done"

\* C16: a call suspended in resolve or query leaves its suspension only in a
\* step in which the engine fires its own completion callback; in every other
\* step (a socket state report, a dispatch, another call starting or
\* completing) it stays exactly as it was and its callback stays with the
\* engine; and the step in which its callback fires resumes it.
C16_ResumedOnlyByOwnCompletion ==
    [][\A c \in Callers :
           calls[c].pc = "waiting" =>
               /\ c \in inflight
               /\ calls'[c].fired = calls[c].fired =>
                      /\ calls'[c] = calls[c]
                      /\ c \in inflight'
               /\ calls'[c].fired # calls[c].fired =>
                      /\ calls'[c].fired = calls[c].fired + 1
                      /\ calls'[c].pc = "done"
                      /\ c \notin inflight']_vars

\* Caller 1's query is still suspended after socket state reports, a
\* dispatch and the completion of caller 2's resolve.
C16_Witness ==
    /\ calls[1].op = "query" /\ calls[1].pc = "waiting" /\ calls[1].fired = 0
    /\ 1 \in inflight
    /\ calls[2].op = "resolve" /\ calls[2].fired = 1 /\ calls[2].returned = 1
    /\ DOMAIN fds = {7}
    /\ zeroed = {8}

\* C17: the callback exists when the lookup is issued, so a completion fired
\* during the lookup call (the call was not yet suspended) and one fired
\* after it (the call was suspended) both finish the call in that step: the
\* caller gets that completion's result or error, once, the callback does
\* not stay with the engine, and a call is never left suspended with its
\* callback already fired.
C17_CompletionNeverLost ==
    [][\A c \in Callers :
           /\ calls'[c].fired # calls[c].fired =>
                  /\ calls[c].pc \in {"idle", "waiting"}
                  /\ calls'[c].fired = 1
                  /\ calls'[c].lookups = 1
                  /\ calls'[c].returned + calls'[c].raised = 1
                  /\ OwnCompletion(calls'[c])
                  /\ c \notin inflight'
           /\ calls'[c].pc = "waiting" =>
                  /\ calls'[c].fired = 0
                  /\ c \in inflight']_vars

\* Caller 1's resolve was completed by the engine during gethostbyname (the
\* lookup is the last thing that happened, and the call is done) and its
\* caller has the addresses.
C17_Witness ==
    /\ last.calls # <<>>
    /\ last.calls[1][1] = "gethostbyname"
    /\ calls[1].op = "resolve" /\ calls[1].pc = "done"
    /\ calls[1].lookups = 1 /\ calls[1].fired = 1 /\ calls[1].returned = 1
    /\ calls[2].pc = "idle"

====
